---- MODULE Spec2Model ----
(***************************************************************************)
(* Model of lib/NovatelOEM4.py: the Gps class (command encoder, reader     *)
(* thread parseResponces, order queue, begin / shutdown) together with the *)
(* serial transport and a receiver that acknowledges command frames.       *)
(*                                                                         *)
(* Bytes are naturals 0..255, byte strings are sequences of bytes.  32-bit *)
(* CRC values are kept as pairs <<hi16, lo16>>.                            *)
(***************************************************************************)
EXTENDS Integers, Sequences, FiniteSets, TLC

(***************************************************************************)
(* Bounds of the model.                                                    *)
(***************************************************************************)
\* number of caller threads that may use the one Gps object
MaxCallers == 2
\* number of operations (begin, commands, shutdown) the callers may start
MaxCalls == 3
\* number of times begin may make a serial port and start a reader thread
MaxBegins == 2

(***************************************************************************)
(* Byte-level helpers: struct.pack / struct.unpack, little-endian.         *)
(***************************************************************************)
Zeros(n) == [ i \in 1..n |-> 0 ]

\* struct.pack('<H', v)
PackH(v) == << v % 256, (v \div 256) % 256 >>

\* struct.pack('<L', v) for 0 <= v < 2^31
PackL(v) == << v % 256, (v \div 256) % 256, (v \div 65536) % 256,
               (v \div 16777216) % 256 >>

\* struct.unpack('<H', b)
UnpackH(b) == b[1] + 256 * b[2]

\* struct.unpack('<L', b) / struct.unpack('<I', b), top byte below 128
UnpackL(b) == b[1] + 256 * b[2] + 65536 * b[3] + 16777216 * b[4]

\* struct.unpack('<I', b) for any four bytes: the unsigned value v as
\* << v \div 65536, v % 65536 >>
UnpackI(b) == << b[3] + 256 * b[4], b[1] + 256 * b[2] >>

\* struct.unpack('<l', b): two's complement
UnpackSignedL(b) ==
    IF b[4] < 128 THEN UnpackL(b)
    ELSE b[1] + 256 * b[2] + 65536 * b[3] + 16777216 * (b[4] - 256)

\* struct.pack('<d', tenths / 10.0) for the periods and offsets used
PackD(tenths) ==
    CASE tenths = 0  -> <<0, 0, 0, 0, 0, 0, 0, 0>>
      [] tenths = 1  -> <<154, 153, 153, 153, 153, 153, 185, 63>>
      [] tenths = 10 -> <<0, 0, 0, 0, 0, 0, 240, 63>>

\* s[a+1 .. b] in Python slice notation s[a:b]
Slice(s, a, b) == SubSeq(s, a + 1, b)

(***************************************************************************)
(* CRC32Value: crcmod.mkCrcFun(0x104C11DB7, 0, True, 0), i.e. the          *)
(* reflected CRC-32 with polynomial 0xEDB88320, initial value 0 and no     *)
(* final xor.                                                              *)
(***************************************************************************)
RECURSIVE Xor(_, _)
Xor(a, b) ==
    IF a = 0 THEN b
    ELSE IF b = 0 THEN a
    ELSE ((a + b) % 2) + 2 * Xor(a \div 2, b \div 2)

Xor32(x, y) == << Xor(x[1], y[1]), Xor(x[2], y[2]) >>

Shr1(x) == << x[1] \div 2, (x[2] \div 2) + 32768 * (x[1] % 2) >>

Shr8(x) == << x[1] \div 256, (x[2] \div 256) + 256 * (x[1] % 256) >>

\* 0xEDB88320
CrcPoly == << 60856, 33568 >>

RECURSIVE CrcBits(_, _)
CrcBits(x, n) ==
    IF n = 0 THEN x
    ELSE CrcBits(IF x[2] % 2 = 1 THEN Xor32(Shr1(x), CrcPoly) ELSE Shr1(x),
                 n - 1)

CrcTable == [ i \in 0..255 |-> CrcBits(<<0, i>>, 8) ]

\* one byte: crc = table[(crc ^ byte) & 0xFF] ^ (crc >> 8)
CrcByte(crc, byte) == Xor32(CrcTable[Xor(crc[2] % 256, byte)], Shr8(crc))

\* the bytes msg[lo..hi] fed in order to crc; the test of left makes TLC
\* compute the left half before it descends into the right one
RECURSIVE CrcFrom(_, _, _, _)
CrcFrom(crc, msg, lo, hi) ==
    IF lo > hi THEN crc
    ELSE IF lo = hi THEN CrcByte(crc, msg[lo])
    ELSE LET mid == (lo + hi) \div 2
             left == CrcFrom(crc, msg, lo, mid)
         IN  IF left[1] >= 0 THEN CrcFrom(left, msg, mid + 1, hi) ELSE left

\* crc(i) of the code, with initial value 0
CRC32Value(msg) == CrcFrom(<<0, 0>>, msg, 1, Len(msg))

\* struct.pack('<L', crc_value)
PackCrc(c) == PackH(c[2]) \o PackH(c[1])

(***************************************************************************)
(* Gps.MessageID, Gps.header_keys and the command encoder.                 *)
(***************************************************************************)
MessageID ==
    [ LOG |-> 1, COM |-> 4, RESET |-> 18, SAVECONFIG |-> 19, UNLOG |-> 36,
      UNLOGALL |-> 38, DATUM |-> 160, DYNAMICS |-> 258, BESTXYZ |-> 241,
      SBASCONTROL |-> 652 ]

\* self.MessageID('RESET'): MessageID is a dict, calling it raises TypeError
MessageIDCall(name) == "TypeError"

\* create_header(messageID, messageLength, portAddress=192): list of 16 values
create_header(messageID, messageLength, portAddress) ==
    << 170, 68, 18, 28, messageID, 2, portAddress, messageLength,
       0, 0, 0, 0, 0, 0, 0, 0 >>

\* the header packed with the big-endian format '>BBBBHBBHHBBHlLHH'; the
\* fields after the port address are 0 in every header create_header makes
PackHeaderBigEndian(h) ==
    << h[1], h[2], h[3], h[4], h[5] \div 256, h[5] % 256, h[6], h[7],
       h[8] \div 256, h[8] % 256 >> \o Zeros(18)

\* struct.pack('<BBBBHBBHHBBHlLHH', *header)
PackHeader(h) ==
    << h[1], h[2], h[3], h[4] >> \o PackH(h[5]) \o << h[6], h[7] >>
    \o PackH(h[8]) \o PackH(h[9]) \o << h[10], h[11] >> \o PackH(h[12])
    \o PackL(h[13]) \o PackL(h[14]) \o PackH(h[15]) \o PackH(h[16])

\* the CRC taken over the 28 header bytes only
WithCrcOfHeader(myMessage) ==
    myMessage \o PackCrc(CRC32Value(SubSeq(myMessage, 1, 28)))

\* finalMessage = myMessage + struct.pack('<L', self.CRC32Value(myMessage))
WithCrc(myMessage) == myMessage \o PackCrc(CRC32Value(myMessage))

\* sendUnlogall: lines 496-502
UnlogallFrame(port, held) ==
    WithCrc(PackHeader(create_header(38, 8, 192)) \o PackL(port) \o PackL(held))

\* setCom: lines 624-630
ComFrame(baud, port, parity, databits, stopbits, handshake, echo, breakCond) ==
    WithCrc(PackHeader(create_header(4, 32, 192))
            \o PackL(port) \o PackL(baud) \o PackL(parity) \o PackL(databits)
            \o PackL(stopbits) \o PackL(handshake) \o PackL(echo)
            \o PackL(breakCond))

\* askLog: lines 733-739; period and offset in tenths of a second
LogFrame(logID, port, trigger, period, offset, hold) ==
    WithCrc(PackHeader(create_header(1, 32, 192))
            \o PackL(port) \o PackH(MessageID[logID]) \o <<0, 0>>
            \o PackL(trigger) \o PackD(period) \o PackD(offset) \o PackL(hold))

\* setDynamics: lines 823-829
DynamicsFrame(dynamicID) ==
    WithCrc(PackHeader(create_header(MessageID["DYNAMICS"], 4, 192))
            \o PackL(dynamicID))

\* the arguments the callers of this model pass
Bauds == { 115200 }
LogArgs == { << 2, 1 >> }
DynamicIDs == { 2, 3 }

\* the frames of the calls of this model, built once
UnlogallDefault == UnlogallFrame(8, 1)

ComFrames == [ baud \in Bauds |-> ComFrame(baud, 6, 0, 8, 1, 0, 0, 1) ]

LogFrames ==
    [ a \in LogArgs |-> LogFrame("BESTXYZ", 192, a[1], a[2], 0, 0) ]

DynamicsFrames == [ d \in { 0, 1, 2 } |-> DynamicsFrame(d) ]

(***************************************************************************)
(* parseResponces: one pass of the while loop body (lines 169-306) over    *)
(* the bytes s waiting at the port.  read(n) blocks until n bytes are      *)
(* there: the pass is "blocked" while s is too short for its next read.    *)
(***************************************************************************)
header_keys ==
    << "sync", "headerLength", "messageID", "messageType", "portAddress",
       "messageLength", "sequence", "idleTime", "timeStatus", "week", "ms",
       "receiverStatus", "reserved", "swVersion" >>

\* lines 172-183: header[0] is the sync list, header[1:] the unpacked
\* '<BHBBHHBBHlLHH' of the 25 bytes after the sync
DecodeHeader(s) ==
    [ sync           |-> << s[1], s[2], s[3] >>,
      headerLength   |-> s[4],
      messageID      |-> UnpackH(Slice(s, 4, 6)),
      messageType    |-> s[7],
      portAddress    |-> s[8],
      messageLength  |-> UnpackH(Slice(s, 8, 10)),
      sequence       |-> UnpackH(Slice(s, 10, 12)),
      idleTime       |-> s[13],
      timeStatus     |-> s[14],
      week           |-> UnpackH(Slice(s, 14, 16)),
      ms             |-> UnpackSignedL(Slice(s, 16, 20)),
      receiverStatus |-> Slice(s, 20, 24),
      reserved       |-> UnpackH(Slice(s, 24, 26)),
      swVersion      |-> UnpackH(Slice(s, 26, 28)) ]

NoHeader == << >>

\* every header outside the other branches taken for a LOG response
OrderTagUnknownAsLog(h) ==
    CASE h.messageID = MessageID["UNLOGALL"]    -> "UNLOGALL"
      [] h.messageID = MessageID["COM"]         -> "COM"
      [] h.messageID = MessageID["DYNAMICS"] /\ h.messageType = 130
                                                -> "DYNAMICS"
      [] h.messageID = MessageID["DYNAMICS"]    -> ""
      [] h.messageID = MessageID["BESTXYZ"]     -> ""
      [] h.messageID = MessageID["RESET"]       -> "RESET"
      [] h.messageID = MessageID["SAVECONFIG"]  -> "SAVECONFIG"
      [] h.messageID = MessageID["SBASCONTROL"] -> "SBASCONTROL"
      [] OTHER                                  -> "LOG"

\* every header with the DYNAMICS identifier taken for a response
OrderTagAnyDynamics(h) ==
    CASE h.messageID = MessageID["LOG"]         -> "LOG"
      [] h.messageID = MessageID["UNLOGALL"]    -> "UNLOGALL"
      [] h.messageID = MessageID["COM"]         -> "COM"
      [] h.messageID = MessageID["DYNAMICS"]    -> "DYNAMICS"
      [] h.messageID = MessageID["RESET"]       -> "RESET"
      [] h.messageID = MessageID["SAVECONFIG"]  -> "SAVECONFIG"
      [] h.messageID = MessageID["SBASCONTROL"] -> "SBASCONTROL"
      [] OTHER                                  -> ""

\* the SAVECONFIG identifier tagged with the name of RESET
OrderTagResetForSaveconfig(h) ==
    CASE h.messageID = MessageID["LOG"]         -> "LOG"
      [] h.messageID = MessageID["UNLOGALL"]    -> "UNLOGALL"
      [] h.messageID = MessageID["COM"]         -> "COM"
      [] h.messageID = MessageID["DYNAMICS"] /\ h.messageType = 130
                                                -> "DYNAMICS"
      [] h.messageID = MessageID["RESET"]       -> "RESET"
      [] h.messageID = MessageID["SAVECONFIG"]  -> "RESET"
      [] h.messageID = MessageID["SBASCONTROL"] -> "SBASCONTROL"
      [] OTHER                                  -> ""

\* the tag of the order put for a header, "" when the header brings none
OrderTag(h) ==
    CASE h.messageID = MessageID["LOG"]         -> "LOG"
      [] h.messageID = MessageID["UNLOGALL"]    -> "UNLOGALL"
      [] h.messageID = MessageID["COM"]         -> "COM"
      [] h.messageID = MessageID["DYNAMICS"] /\ h.messageType = 130
                                                -> "DYNAMICS"
      [] h.messageID = MessageID["RESET"]       -> "RESET"
      [] h.messageID = MessageID["SAVECONFIG"]  -> "SAVECONFIG"
      [] h.messageID = MessageID["SBASCONTROL"] -> "SBASCONTROL"
      [] OTHER                                  -> ""

\* MYPORT.read(n) returns no bytes for n <= 0
ReadLen(n) == IF n < 0 THEN 0 ELSE n

\* a decoder that checks the CRC and gives an empty response when the four
\* CRC bytes are not CRC32Value of the header and body
DecodeOrderChecked(h, s) ==
    LET n == ReadLen(h.messageLength - 4)
        ok == Slice(s, 32 + n, 36 + n)
                  = PackCrc(CRC32Value(Slice(s, 0, 32 + n)))
    IN  [ responseID |-> IF ok THEN UnpackI(Slice(s, 28, 32)) ELSE << 0, 0 >>,
          ascii      |-> IF ok THEN Slice(s, 32, 32 + n) ELSE << >>,
          crc32      |-> Slice(s, 32 + n, 36 + n) ]

\* lines 185-194 (and the six copies of them): response code, text, CRC
DecodeOrder(h, s) ==
    LET n == ReadLen(h.messageLength - 4)
    IN  [ responseID |-> UnpackI(Slice(s, 28, 32)),
          ascii      |-> Slice(s, 32, 32 + n),
          crc32      |-> Slice(s, 32 + n, 36 + n) ]

\* lines 274-294: the bestxyz record; floats stay as their bytes
DecodeBestxyz(h, s) ==
    LET b == Slice(s, 28, 28 + h.messageLength)
        c == Slice(s, 28 + h.messageLength, 32 + h.messageLength)
    IN  [ pSolStatus   |-> UnpackL(Slice(b, 0, 4)),
          posType      |-> UnpackL(Slice(b, 4, 8)),
          position     |-> Slice(b, 8, 32),
          positionStd  |-> Slice(b, 32, 44),
          velSolStatus |-> UnpackL(Slice(b, 44, 48)),
          velType      |-> UnpackL(Slice(b, 48, 52)),
          velocity     |-> Slice(b, 52, 76),
          velocityStd  |-> Slice(b, 76, 88),
          stnID        |-> Slice(b, 88, 92),
          vLatency     |-> Slice(b, 92, 96),
          diffAge      |-> Slice(b, 96, 100),
          solAge       |-> Slice(b, 100, 104),
          numStasVs    |-> b[105],
          numSolSatVs  |-> b[106],
          numGGL1      |-> b[107],
          reserved     |-> Slice(b, 107, 109),
          extSolStat   |-> b[110],
          reserved2    |-> b[111],
          sigMask      |-> b[112],
          crc32        |-> c ]

\* result of a pass that cannot proceed yet
Blocked == [ kind |-> "blocked", used |-> 0, header |-> NoHeader ]

\* a pass that leaves the byte that failed as second or third sync byte at
\* the port, to be looked at again as a first sync byte
ParsePassRescan(s) ==
    IF Len(s) < 1 THEN Blocked
    ELSE IF s[1] # 170
    THEN [ kind |-> "unexpected", used |-> 1, header |-> NoHeader ]
    ELSE IF Len(s) < 2 THEN Blocked
    ELSE IF s[2] # 68
    THEN [ kind |-> "nosync", used |-> 1, header |-> NoHeader ]
    ELSE IF Len(s) < 3 THEN Blocked
    ELSE IF s[3] # 18
    THEN [ kind |-> "nosync", used |-> 2, header |-> NoHeader ]
    ELSE IF Len(s) < 28 THEN Blocked
    ELSE
      LET h == DecodeHeader(s) IN
      IF OrderTag(h) # ""
      THEN LET n == 36 + ReadLen(h.messageLength - 4) IN
           IF Len(s) < n THEN Blocked
           ELSE [ kind |-> "order", used |-> n, header |-> h,
                  order |-> OrderTag(h), data |-> DecodeOrder(h, s) ]
      ELSE [ kind |-> "unhandled", used |-> 28, header |-> h ]

\* One pass of the loop body.  kind: what the pass did; used: bytes read.
ParsePass(s) ==
    IF Len(s) < 1 THEN Blocked
    ELSE IF s[1] # 170
    THEN [ kind |-> "unexpected", used |-> 1, header |-> NoHeader ]
    ELSE IF Len(s) < 2 THEN Blocked
    ELSE IF s[2] # 68
    THEN [ kind |-> "nosync", used |-> 2, header |-> NoHeader ]
    ELSE IF Len(s) < 3 THEN Blocked
    ELSE IF s[3] # 18
    THEN [ kind |-> "nosync", used |-> 3, header |-> NoHeader ]
    ELSE IF Len(s) < 28 THEN Blocked
    ELSE
      LET h == DecodeHeader(s) IN
      IF OrderTag(h) # ""
      THEN LET n == 36 + ReadLen(h.messageLength - 4) IN
           IF Len(s) < n THEN Blocked
           ELSE [ kind |-> "order", used |-> n, header |-> h,
                  order |-> OrderTag(h), data |-> DecodeOrder(h, s) ]
      ELSE IF h.messageID = MessageID["DYNAMICS"]
      THEN IF Len(s) < 36 THEN Blocked
           ELSE [ kind |-> "info", used |-> 36, header |-> h ]
      ELSE IF h.messageID = MessageID["BESTXYZ"]
      THEN IF Len(s) < 28 + h.messageLength THEN Blocked
           ELSE IF h.messageLength < 112
           THEN \* struct.error from an unpack of a short slice
                [ kind |-> "error", used |-> 28 + h.messageLength,
                  header |-> h ]
           ELSE IF Len(s) < 32 + h.messageLength THEN Blocked
           ELSE [ kind |-> "bestxyz", used |-> 32 + h.messageLength,
                  header |-> h, data |-> DecodeBestxyz(h, s) ]
      ELSE [ kind |-> "unhandled", used |-> 28, header |-> h ]

(***************************************************************************)
(* The receiver at the other end of the serial line.  It answers every     *)
(* command frame with a response frame that carries the command's message  *)
(* identifier, the response bit in the message type, a response code and a *)
(* text; while a log is requested it sends BESTXYZ.                        *)
(***************************************************************************)
\* header of a frame sent by the receiver
DeviceHeader(messageID, messageType, messageLength) ==
    << 170, 68, 18, 28 >> \o PackH(messageID) \o << messageType, 32 >>
    \o PackH(messageLength) \o PackH(0) \o << 77, 160 >> \o PackH(1921)
    \o PackL(5000) \o PackL(0) \o PackH(0) \o PackH(3301)

\* "OK" for the success code, "ER" otherwise
AckText(code) == IF code = 1 THEN << 79, 75 >> ELSE << 69, 82 >>

AckFrame(messageID, code) ==
    WithCrc(DeviceHeader(messageID, 130, 4 + Len(AckText(code)))
            \o PackL(code) \o AckText(code))

BestxyzFrame ==
    WithCrc(DeviceHeader(MessageID["BESTXYZ"], 0, 112)
            \o PackL(0) \o PackL(16) \o Zeros(104))

\* the response codes the receiver may give: 1 is OK
DevCodes == { 1, 2 }

\* the responses to the commands, by message identifier and response code
AckFrames ==
    [ id \in { MessageID[n] : n \in { "LOG", "COM", "UNLOGALL", "DYNAMICS",
                                       "RESET", "SAVECONFIG", "SBASCONTROL" } }
        |-> [ code \in DevCodes |-> AckFrame(id, code) ] ]

(***************************************************************************)
(* State.                                                                  *)
(***************************************************************************)
VARIABLES
    isOpen,          \* self.isOpen
    myPort,          \* self.myPort: 0 is the "" of __init__, else a Serial object
    serials,         \* the Serial objects made so far: [open, baud, breaks]
    baudRate,        \* self.baudRate
    queueSet,        \* self.dataQueue is not None
    dataQueue,       \* the records put on the caller's queue
    threadID,        \* self.threadID: 0 while the attribute does not exist
    rpc,             \* each reader thread's position in parseResponces
    rport,           \* each reader thread's local MYPORT
    exitFlag,        \* self.exitFlag
    orders,          \* self.orders
    current_header,  \* self.current_header
    Indice,          \* self.Indice
    rlog,            \* the last message a reader pass logged
    tx,              \* frames written to the port, not yet seen by the receiver
    rx,              \* bytes sent by the receiver, not yet read
    rxIds,           \* for each response frame in rx, the write it answers
    dev,             \* the receiver: [logging, sent, refused]
    call,            \* each caller thread, see NewCall
    ncalls,          \* operations started so far
    nwrites          \* frames written so far

vars == << isOpen, myPort, serials, baudRate, queueSet, dataQueue, threadID, rpc,
           rport, exitFlag, orders, current_header, Indice, rlog, tx, rx,
           rxIds, dev, call, ncalls, nwrites >>

gpsVars == << isOpen, myPort, baudRate, queueSet, threadID >>
readerVars == << rpc, rport, current_header, Indice, rlog, dataQueue >>
wireVars == << tx, rx, rxIds, dev, nwrites >>

\* bound on the BESTXYZ frames the receiver sends
MaxTelemetry == 1

Callers == 1..MaxCallers
Readers == 1..MaxBegins

\* A caller thread.  pc: where it is inside the function it runs; sd: the
\* statement of shutdown it is at (0: not in shutdown); op: the operation it
\* started last; fn: the function of Gps it entered last; ret: what fn
\* returned or the exception that ended it ("" while it runs); pre: fn was
\* entered with the port open and valid arguments; cmd: the order tag fn
\* expects; mp, arg: its locals MYPORT and baud; wrote, gets: the frames it
\* wrote and the orders it dequeued; my: the number of the frame it wrote;
\* got: the number of the frame whose response it dequeued; prevfn, prev:
\* the function that ended last before fn was entered and what it returned
\* or raised.
NewCall ==
    [ pc |-> "idle", sd |-> 0, op |-> "", fn |-> "", ret |-> "",
      pre |-> FALSE, cmd |-> "", mp |-> 0, arg |-> 0, wrote |-> 0,
      gets |-> 0, my |-> 0, got |-> 0, prevfn |-> "", prev |-> "" ]

\* the state after Gps.__init__ (lines 103-114)
Init ==
    /\ isOpen = FALSE
    /\ myPort = 0
    /\ serials = << >>
    /\ baudRate = 9600
    /\ queueSet = FALSE
    /\ dataQueue = << >>
    /\ threadID = 0
    /\ rpc = [ r \in Readers |-> "unborn" ]
    /\ rport = [ r \in Readers |-> 0 ]
    /\ exitFlag = FALSE
    /\ orders = << >>
    /\ current_header = NoHeader
    /\ Indice = 1
    /\ rlog = "none"
    /\ tx = << >>
    /\ rx = << >>
    /\ rxIds = << >>
    /\ dev = [ logging |-> FALSE, sent |-> 0, refused |-> FALSE ]
    /\ call = [ c \in Callers |-> NewCall ]
    /\ ncalls = 0
    /\ nwrites = 0

(***************************************************************************)
(* Caller threads: returning, raising, writing a frame.                    *)
(***************************************************************************)
Terminated == { "done", "failed" }

\* the thread enters the function fn
Enter(cl, fn, pre) ==
    [ cl EXCEPT !.fn = fn, !.ret = "", !.pre = pre, !.cmd = "", !.wrote = 0,
                !.gets = 0, !.my = 0, !.got = 0,
                !.prevfn = IF cl.ret # "" THEN cl.fn ELSE @,
                !.prev = IF cl.ret # "" THEN cl.ret ELSE @ ]

\* the function fn returns v; inside shutdown the next statement follows
Return(cl, fn, v) ==
    [ cl EXCEPT !.pc = "idle", !.fn = fn, !.ret = v,
                !.sd = IF @ \in {1, 3} THEN @ + 1 ELSE @ ]

\* fn ends with exception e, which also ends a shutdown around it
Raise(cl, fn, e) ==
    [ cl EXCEPT !.pc = "idle", !.fn = fn, !.ret = e, !.sd = 0 ]

\* the thread runs no operation of the Gps object
Idle(c) == call[c].pc = "idle" /\ call[c].sd = 0

\* the caller record cl with op as the operation it started last
Op(cl, op) == [ cl EXCEPT !.op = op ]

\* MYPORT = self.myPort; ...; MYPORT.write(finalMessage); MYPORT.flush()
Write(c, cl, fn, tag, frame, arg, pcAfter) ==
    IF serials[myPort].open
    THEN /\ tx' = Append(tx, [ bytes |-> frame, id |-> nwrites + 1 ])
         /\ nwrites' = nwrites + 1
         /\ call' = [ call EXCEPT ![c] =
                        [ cl EXCEPT !.pc = pcAfter, !.cmd = tag,
                                    !.mp = myPort, !.arg = arg,
                                    !.wrote = @ + 1, !.my = nwrites + 1 ] ]
    ELSE /\ call' = [ call EXCEPT ![c] = Raise(cl, fn, "SerialException") ]
         /\ UNCHANGED << tx, nwrites >>

\* a command that takes every response with its tag for a success
CmdResultIgnoresCode(tag, message) ==
    IF message.order = tag THEN "True" ELSE "None"

\* lines 511-520 (745-754, 838-847, ...): the result of a command whose
\* orders.get() returned message
CmdResult(tag, message) ==
    IF message.order = tag
    THEN IF message.data.responseID = << 0, 1 >> THEN "True" ELSE "False"
    ELSE "None"

(***************************************************************************)
(* begin (lines 354-382).                                                  *)
(***************************************************************************)
\* a begin that takes a port that did not open for an open one
BeginTrustsPort(c, exists, opens) ==
    /\ Idle(c)
    /\ ncalls' = ncalls + 1
    /\ IF ~exists
       THEN /\ call' = [ call EXCEPT ![c] =
                           Return(Enter(Op(@, "begin"), "begin", FALSE),
                                  "begin", "False") ]
            /\ UNCHANGED << myPort, serials, isOpen >>
       ELSE /\ Len(serials) < MaxBegins
            /\ serials' = Append(serials, [ open |-> opens, baud |-> 9600,
                                      breaks |-> 0 ])
            /\ myPort' = Len(serials) + 1
            /\ isOpen' = TRUE
            /\ call' = [ call EXCEPT ![c] =
                           Return(Enter(Op(@, "begin"), "begin", opens),
                                  "begin", IF opens THEN "True" ELSE "False") ]
    /\ UNCHANGED << baudRate, queueSet, threadID, exitFlag, orders >>
    /\ UNCHANGED << readerVars, wireVars >>

\* lines 354-366: the path check, serial.Serial(...), the is_open check
Begin(c, exists, opens) ==
    /\ Idle(c)
    /\ ncalls' = ncalls + 1
    /\ IF ~exists
       THEN /\ call' = [ call EXCEPT ![c] =
                           Return(Enter(Op(@, "begin"), "begin", FALSE),
                                  "begin", "False") ]
            /\ UNCHANGED << myPort, serials, isOpen >>
       ELSE /\ Len(serials) < MaxBegins
            /\ serials' = Append(serials, [ open |-> opens, baud |-> 9600,
                                      breaks |-> 0 ])
            /\ myPort' = Len(serials) + 1
            /\ IF opens
               THEN /\ call' = [ call EXCEPT ![c] =
                                   [ Enter(Op(@, "begin"), "begin", TRUE)
                                       EXCEPT !.pc = "begin_break" ] ]
                    /\ UNCHANGED isOpen
               ELSE /\ isOpen' = FALSE
                    /\ call' = [ call EXCEPT ![c] =
                                   Return(Enter(Op(@, "begin"), "begin", FALSE),
                                          "begin", "False") ]
    /\ UNCHANGED << baudRate, queueSet, threadID, exitFlag, orders >>
    /\ UNCHANGED << readerVars, wireVars >>

\* lines 368-372: break_condition, send_break, sleep, send_break, sleep
BeginBreak(c) ==
    /\ call[c].pc = "begin_break"
    /\ IF serials[myPort].open
       THEN /\ serials' = [ serials EXCEPT ![myPort].breaks = @ + 2 ]
            /\ call' = [ call EXCEPT ![c].pc = "begin_set" ]
       ELSE /\ call' = [ call EXCEPT ![c] =
                           Raise(@, "begin", "SerialException") ]
            /\ UNCHANGED serials
    /\ UNCHANGED << gpsVars, exitFlag, orders, ncalls >>
    /\ UNCHANGED << readerVars, wireVars >>

\* isOpen and baudRate set, self.dataQueue left for after the thread start
BeginSetWithoutQueue(c) ==
    /\ call[c].pc = "begin_set"
    /\ baudRate' = 9600
    /\ isOpen' = TRUE
    /\ call' = [ call EXCEPT ![c].pc = "begin_start" ]
    /\ UNCHANGED << myPort, serials, threadID, exitFlag, orders, ncalls >>
    /\ UNCHANGED << queueSet, readerVars, wireVars >>

\* lines 373-376
BeginSet(c) ==
    /\ call[c].pc = "begin_set"
    /\ baudRate' = 9600
    /\ isOpen' = TRUE
    /\ queueSet' = TRUE
    /\ call' = [ call EXCEPT ![c].pc = "begin_start" ]
    /\ UNCHANGED << myPort, serials, threadID, exitFlag, orders, ncalls >>
    /\ UNCHANGED << readerVars, wireVars >>

\* lines 378-382: a new thread runs parseResponces
BeginStart(c) ==
    /\ call[c].pc = "begin_start"
    /\ LET r == CHOOSE x \in Readers :
                  /\ rpc[x] = "unborn"
                  /\ \A y \in Readers : rpc[y] = "unborn" => x <= y
       IN  /\ threadID' = r
           /\ rpc' = [ rpc EXCEPT ![r] = "entry" ]
    /\ call' = [ call EXCEPT ![c] = Return(@, "begin", "True") ]
    /\ UNCHANGED << isOpen, myPort, serials, baudRate, queueSet, exitFlag,
                    orders, ncalls >>
    /\ UNCHANGED << rport, current_header, Indice, rlog, dataQueue >>
    /\ UNCHANGED wireVars

(***************************************************************************)
(* The commands.                                                           *)
(***************************************************************************)
\* sendUnlogall(port=8, held=1), lines 493-523, up to orders.get()
DoSendUnlogall(c, cl) ==
    IF isOpen
    THEN Write(c, Enter(cl, "sendUnlogall", TRUE), "sendUnlogall", "UNLOGALL",
               UnlogallDefault, 0, "wait")
    ELSE /\ call' = [ call EXCEPT ![c] =
                        Return(Enter(cl, "sendUnlogall", FALSE),
                               "sendUnlogall", "False") ]
         /\ UNCHANGED << tx, nwrites >>

SendUnlogall(c) ==
    /\ Idle(c)
    /\ ncalls' = ncalls + 1
    /\ DoSendUnlogall(c, Op(call[c], "sendUnlogall"))
    /\ UNCHANGED << gpsVars, serials, exitFlag, orders, rx, rxIds, dev >>
    /\ UNCHANGED readerVars

\* askLog(logID='BESTXYZ', port=192, trigger, period, offset=0, hold=0),
\* lines 731-757, up to orders.get()
AskLog(c, trigger, period) ==
    /\ Idle(c)
    /\ ncalls' = ncalls + 1
    /\ IF isOpen
       THEN Write(c, Enter(Op(call[c], "askLog"), "askLog", TRUE), "askLog",
                  "LOG", LogFrames[<< trigger, period >>], 0, "wait")
       ELSE /\ call' = [ call EXCEPT ![c] =
                           Return(Enter(Op(@, "askLog"), "askLog", FALSE),
                                  "askLog", "False") ]
            /\ UNCHANGED << tx, nwrites >>
    /\ UNCHANGED << gpsVars, serials, exitFlag, orders, rx, rxIds, dev >>
    /\ UNCHANGED readerVars

\* setDynamics(dynamicID), lines 820-853, up to orders.get()
SetDynamics(c, dynamicID) ==
    /\ Idle(c)
    /\ ncalls' = ncalls + 1
    /\ IF isOpen /\ dynamicID \in {0, 1, 2}
       THEN Write(c, Enter(Op(call[c], "setDynamics"), "setDynamics", TRUE),
                  "setDynamics", "DYNAMICS", DynamicsFrames[dynamicID], 0,
                  "wait")
       ELSE /\ call' = [ call EXCEPT ![c] =
                           Return(Enter(Op(@, "setDynamics"), "setDynamics",
                                        FALSE),
                                  "setDynamics", "False") ]
            /\ UNCHANGED << tx, nwrites >>
    /\ UNCHANGED << gpsVars, serials, exitFlag, orders, rx, rxIds, dev >>
    /\ UNCHANGED readerVars

\* an orders.get() that puts a response with another tag back on the queue
OrdersGetRequeue(c) ==
    /\ call[c].pc = "wait"
    /\ orders # << >>
    /\ orders' = IF Head(orders).order = call[c].cmd THEN Tail(orders)
                 ELSE Append(Tail(orders), Head(orders))
    /\ call' = [ call EXCEPT ![c] =
                   Return([ @ EXCEPT !.gets = @ + 1,
                                     !.got = Head(orders).ackOf ],
                          @.fn, CmdResult(@.cmd, Head(orders))) ]
    /\ UNCHANGED << gpsVars, serials, exitFlag, ncalls >>
    /\ UNCHANGED << readerVars, wireVars >>

\* orders.get(timeout=...) with the Queue.Empty caught: the call returns
\* False when the queue stays empty
OrdersGetTimeout(c) ==
    /\ call[c].pc = "wait"
    /\ orders' = IF orders = << >> THEN orders ELSE Tail(orders)
    /\ call' = [ call EXCEPT ![c] =
                   IF orders = << >> THEN Return(@, @.fn, "False")
                   ELSE Return([ @ EXCEPT !.gets = @ + 1,
                                          !.got = Head(orders).ackOf ],
                               @.fn, CmdResult(@.cmd, Head(orders))) ]
    /\ UNCHANGED << gpsVars, serials, exitFlag, ncalls >>
    /\ UNCHANGED << readerVars, wireVars >>

\* message = self.orders.get() and the rest of sendUnlogall, askLog and
\* setDynamics
OrdersGet(c) ==
    /\ call[c].pc = "wait"
    /\ orders # << >>
    /\ orders' = Tail(orders)
    /\ call' = [ call EXCEPT ![c] =
                   Return([ @ EXCEPT !.gets = @ + 1,
                                     !.got = Head(orders).ackOf ],
                          @.fn, CmdResult(@.cmd, Head(orders))) ]
    /\ UNCHANGED << gpsVars, serials, exitFlag, ncalls >>
    /\ UNCHANGED << readerVars, wireVars >>

\* setCom(baud, port=6, parity=0, databits=8, stopbits=1, handshake=0,
\* echo=0, breakCond=1), lines 622-634
SetCom(c, baud) ==
    /\ Idle(c)
    /\ ncalls' = ncalls + 1
    /\ IF isOpen
       THEN Write(c, Enter(Op(call[c], "setCom"), "setCom", TRUE), "setCom",
                  "COM", ComFrames[baud], baud, "com_apply")
       ELSE /\ call' = [ call EXCEPT ![c] =
                           Return(Enter(Op(@, "setCom"), "setCom", FALSE),
                                  "setCom", "False") ]
            /\ UNCHANGED << tx, nwrites >>
    /\ UNCHANGED << gpsVars, serials, exitFlag, orders, rx, rxIds, dev >>
    /\ UNCHANGED readerVars

\* setCom, lines 635-662: sleep(1), apply_settings, reset_input_buffer,
\* reset_output_buffer, return MYPORT.is_open
ComApply(c) ==
    /\ call[c].pc = "com_apply"
    /\ IF serials[call[c].mp].open
       THEN /\ serials' = [ serials EXCEPT ![call[c].mp].baud = call[c].arg ]
            /\ rx' = << >>
            /\ rxIds' = << >>
            /\ call' = [ call EXCEPT ![c] = Return(@, "setCom", "True") ]
       ELSE /\ call' = [ call EXCEPT ![c] =
                           Raise(@, "setCom", "SerialException") ]
            /\ UNCHANGED << serials, rx, rxIds >>
    /\ UNCHANGED << gpsVars, exitFlag, orders, ncalls, tx, dev, nwrites >>
    /\ UNCHANGED readerVars

\* the identifier looked up before self.isOpen is tested
BrokenCommandLookupFirst(c, fn, name) ==
    /\ Idle(c)
    /\ ncalls' = ncalls + 1
    /\ call' = [ call EXCEPT ![c] =
                   Raise(Enter(Op(@, fn), fn, isOpen), fn,
                         MessageIDCall(name)) ]
    /\ UNCHANGED << gpsVars, serials, exitFlag, orders >>
    /\ UNCHANGED << readerVars, wireVars >>

\* reset (973-977), saveconfig (1025-1029), sbascontrol (1131-1135): with
\* the port open, self.MessageID(...) raises before anything is written
BrokenCommand(c, fn, name) ==
    /\ Idle(c)
    /\ ncalls' = ncalls + 1
    /\ call' = [ call EXCEPT ![c] =
                   IF isOpen
                   THEN Raise(Enter(Op(@, fn), fn, TRUE), fn,
                              MessageIDCall(name))
                   ELSE Return(Enter(Op(@, fn), fn, FALSE), fn, "False") ]
    /\ UNCHANGED << gpsVars, serials, exitFlag, orders >>
    /\ UNCHANGED << readerVars, wireVars >>

Reset(c) == BrokenCommand(c, "reset", "RESET")

Saveconfig(c) == BrokenCommand(c, "saveconfig", "RESET")

Sbascontrol(c) == BrokenCommand(c, "sbascontrol", "SBASCONTROL")

(***************************************************************************)
(* shutdown (lines 1176-1189), one action per statement.                   *)
(***************************************************************************)
Shutdown(c) ==
    /\ Idle(c)
    /\ ncalls' = ncalls + 1
    /\ call' = [ call EXCEPT ![c] =
                   [ Enter(Op(@, "shutdown"), "shutdown", isOpen)
                       EXCEPT !.sd = 1 ] ]
    /\ UNCHANGED << gpsVars, serials, exitFlag, orders >>
    /\ UNCHANGED << readerVars, wireVars >>

\* lines 1176 and 1178: self.sendUnlogall()
ShutdownUnlogall(c) ==
    /\ call[c].pc = "idle"
    /\ call[c].sd \in {1, 3}
    /\ DoSendUnlogall(c, call[c])
    /\ UNCHANGED << gpsVars, serials, exitFlag, orders, ncalls, rx, rxIds, dev >>
    /\ UNCHANGED readerVars

\* line 1177: self.exitFlag.set()
ShutdownSetFlag(c) ==
    /\ call[c].pc = "idle"
    /\ call[c].sd = 2
    /\ exitFlag' = TRUE
    /\ call' = [ call EXCEPT ![c].sd = 3 ]
    /\ UNCHANGED << gpsVars, serials, orders, ncalls >>
    /\ UNCHANGED << readerVars, wireVars >>

\* a join that does not wait for the reader thread to end
ShutdownJoinNoWait(c) ==
    /\ call[c].pc = "idle"
    /\ call[c].sd = 4
    /\ call' = [ call EXCEPT ![c] =
                   IF threadID = 0 THEN Raise(@, "shutdown", "AttributeError")
                   ELSE [ @ EXCEPT !.sd = 5 ] ]
    /\ UNCHANGED << gpsVars, serials, exitFlag, orders, ncalls >>
    /\ UNCHANGED << readerVars, wireVars >>

\* line 1179: self.threadID.join()
ShutdownJoin(c) ==
    /\ call[c].pc = "idle"
    /\ call[c].sd = 4
    /\ IF threadID = 0
       THEN call' = [ call EXCEPT ![c] =
                        Raise(@, "shutdown", "AttributeError") ]
       ELSE /\ rpc[threadID] \in Terminated
            /\ call' = [ call EXCEPT ![c].sd = 5 ]
    /\ UNCHANGED << gpsVars, serials, exitFlag, orders, ncalls >>
    /\ UNCHANGED << readerVars, wireVars >>

\* lines 1181-1185: break_condition, send_break, sleep, send_break, sleep
ShutdownBreak(c) ==
    /\ call[c].pc = "idle"
    /\ call[c].sd = 5
    /\ IF serials[myPort].open
       THEN /\ serials' = [ serials EXCEPT ![myPort].breaks = @ + 2 ]
            /\ call' = [ call EXCEPT ![c].sd = 6 ]
       ELSE /\ call' = [ call EXCEPT ![c] =
                           Raise(@, "shutdown", "SerialException") ]
            /\ UNCHANGED serials
    /\ UNCHANGED << gpsVars, exitFlag, orders, ncalls >>
    /\ UNCHANGED << readerVars, wireVars >>

\* line 1186: self.myPort.close()
ShutdownClose(c) ==
    /\ call[c].pc = "idle"
    /\ call[c].sd = 6
    /\ serials' = [ serials EXCEPT ![myPort].open = FALSE ]
    /\ call' = [ call EXCEPT ![c].sd = 7 ]
    /\ UNCHANGED << gpsVars, exitFlag, orders, ncalls >>
    /\ UNCHANGED << readerVars, wireVars >>

\* lines 1187-1189: self.isOpen = False; return True
ShutdownClear(c) ==
    /\ call[c].pc = "idle"
    /\ call[c].sd = 7
    /\ isOpen' = FALSE
    /\ call' = [ call EXCEPT ![c] =
                   [ Return(@, "shutdown", "True") EXCEPT !.sd = 0 ] ]
    /\ UNCHANGED << myPort, serials, baudRate, queueSet, threadID, exitFlag,
                    orders, ncalls >>
    /\ UNCHANGED << readerVars, wireVars >>

(***************************************************************************)
(* parseResponces, the reader thread (lines 161-308).                      *)
(***************************************************************************)
\* lines 161-166: leave when the port is not open, else MYPORT = self.myPort
ReaderEntry(r) ==
    /\ rpc[r] = "entry"
    /\ IF isOpen
       THEN /\ rpc' = [ rpc EXCEPT ![r] = "check" ]
            /\ rport' = [ rport EXCEPT ![r] = myPort ]
       ELSE /\ rpc' = [ rpc EXCEPT ![r] = "done" ]
            /\ UNCHANGED rport
    /\ UNCHANGED << gpsVars, serials, exitFlag, orders, call, ncalls >>
    /\ UNCHANGED << current_header, Indice, rlog, dataQueue >>
    /\ UNCHANGED wireVars

\* a loop that goes on to read whatever the stop flag says
ReaderCheckIgnoresFlag(r) ==
    /\ rpc[r] = "check"
    /\ rpc' = [ rpc EXCEPT ![r] = "read" ]
    /\ UNCHANGED << gpsVars, serials, exitFlag, orders, call, ncalls >>
    /\ UNCHANGED << rport, current_header, Indice, rlog, dataQueue >>
    /\ UNCHANGED wireVars

\* line 168: while(self.exitFlag.isSet() == False)
ReaderCheck(r) ==
    /\ rpc[r] = "check"
    /\ rpc' = [ rpc EXCEPT ![r] = IF exitFlag THEN "done" ELSE "read" ]
    /\ UNCHANGED << gpsVars, serials, exitFlag, orders, call, ncalls >>
    /\ UNCHANGED << rport, current_header, Indice, rlog, dataQueue >>
    /\ UNCHANGED wireVars

\* what a pass logs
PassLog(res) ==
    CASE res.kind = "unexpected" -> "New Byte unexpected"
      [] res.kind = "order"      -> "response received"
      [] res.kind = "info"       -> "response received"
      [] OTHER                   -> "none"

\* the order put on self.orders for a pass that decoded one
NewOrder(res) ==
    [ order |-> res.order, data |-> res.data,
      ackOf |-> IF rxIds = << >> THEN 0 ELSE Head(rxIds) ]

\* a record numbered after the counter was advanced
NewRecordAfterIncrement(res) == [ Indice |-> Indice + 1, data |-> res.data ]

\* the record put on self.dataQueue (lines 295-299), Time left out
NewRecord(res) == [ Indice |-> Indice, data |-> res.data ]

\* lines 169-306: one pass of the loop body
ReaderPass(r) ==
    /\ rpc[r] = "read"
    /\ IF ~serials[rport[r]].open
       THEN \* read on a closed port raises
            /\ rpc' = [ rpc EXCEPT ![r] = "failed" ]
            /\ UNCHANGED << orders, rx, rxIds, current_header, Indice, rlog,
                            dataQueue >>
       ELSE LET res == ParsePass(rx) IN
            /\ res.kind # "blocked"
            /\ rx' = SubSeq(rx, res.used + 1, Len(rx))
            /\ rlog' = PassLog(res)
            /\ current_header' =
                   IF res.header = NoHeader THEN current_header
                   ELSE res.header
            /\ orders' = IF res.kind = "order"
                         THEN Append(orders, NewOrder(res)) ELSE orders
            /\ rxIds' = IF res.kind = "order" /\ rxIds # << >>
                        THEN Tail(rxIds) ELSE rxIds
            /\ dataQueue' = IF res.kind = "bestxyz" /\ queueSet
                            THEN Append(dataQueue, NewRecord(res))
                            ELSE dataQueue
            /\ Indice' = IF res.kind = "bestxyz" /\ queueSet
                         THEN Indice + 1 ELSE Indice
            /\ rpc' = [ rpc EXCEPT ![r] =
                          IF \/ res.kind = "error"
                             \/ res.kind = "bestxyz" /\ ~queueSet
                          THEN "failed" ELSE "check" ]
    /\ UNCHANGED << gpsVars, serials, exitFlag, call, ncalls >>
    /\ UNCHANGED << rport, tx, dev, nwrites >>

(***************************************************************************)
(* The receiver.                                                           *)
(***************************************************************************)
\* the receiver takes the next frame written to it and answers it with code
DeviceAck(code) ==
    /\ tx # << >>
    /\ tx' = Tail(tx)
    /\ LET id == UnpackH(Slice(Head(tx).bytes, 4, 6)) IN
       /\ rx' = rx \o AckFrames[id][code]
       /\ rxIds' = Append(rxIds, Head(tx).id)
       /\ dev' = [ dev EXCEPT
                     !.refused = @ \/ code # 1,
                     !.logging = IF code # 1 THEN @
                                 ELSE IF id = MessageID["LOG"] THEN TRUE
                                 ELSE IF id = MessageID["UNLOGALL"] THEN FALSE
                                 ELSE @ ]
    /\ UNCHANGED << gpsVars, serials, exitFlag, orders, call, ncalls, nwrites >>
    /\ UNCHANGED readerVars

\* the receiver sends one BESTXYZ log
DeviceTelemetry ==
    /\ dev.logging
    /\ dev.sent < MaxTelemetry
    /\ rx' = rx \o BestxyzFrame
    /\ dev' = [ dev EXCEPT !.sent = @ + 1 ]
    /\ UNCHANGED << gpsVars, serials, exitFlag, orders, call, ncalls >>
    /\ UNCHANGED << readerVars, tx, rxIds, nwrites >>

DeviceStep ==
    \/ \E code \in DevCodes : DeviceAck(code)
    \/ DeviceTelemetry

(***************************************************************************)
(* The session.  A thread that runs no operation may start any one, while  *)
(* fewer than MaxCalls were started; a started operation runs on.          *)
(***************************************************************************)
StartOp(c) ==
    /\ ncalls < MaxCalls
    /\ \/ \E exists, opens \in BOOLEAN : Begin(c, exists, opens)
       \/ SendUnlogall(c)
       \/ \E a \in LogArgs : AskLog(c, a[1], a[2])
       \/ \E d \in DynamicIDs : SetDynamics(c, d)
       \/ \E baud \in Bauds : SetCom(c, baud)
       \/ Reset(c)
       \/ Saveconfig(c)
       \/ Sbascontrol(c)
       \/ Shutdown(c)

ContinueOp(c) ==
    \/ BeginBreak(c)
    \/ BeginSet(c)
    \/ BeginStart(c)
    \/ ComApply(c)
    \/ OrdersGet(c)
    \/ ShutdownUnlogall(c)
    \/ ShutdownSetFlag(c)
    \/ ShutdownJoin(c)
    \/ ShutdownBreak(c)
    \/ ShutdownClose(c)
    \/ ShutdownClear(c)

ReaderStep(r) ==
    \/ ReaderEntry(r)
    \/ ReaderCheck(r)
    \/ ReaderPass(r)

\* the thread that owns the Gps object in the examples: the first caller
Main == CHOOSE c \in Callers : \A d \in Callers : c <= d

\* one thread uses the Gps object
Next ==
    \/ StartOp(Main)
    \/ ContinueOp(Main)
    \/ \E r \in Readers : ReaderStep(r)
    \/ DeviceStep

Spec == Init /\ [][Next]_vars

\* several threads use the one Gps object
NextThreads ==
    \/ \E c \in Callers : StartOp(c)
    \/ \E c \in Callers : ContinueOp(c)
    \/ \E r \in Readers : ReaderStep(r)
    \/ DeviceStep

SpecThreads == Init /\ [][NextThreads]_vars

\* the receiver answers every frame it was sent
DeviceAnswers == \E code \in DevCodes : DeviceAck(code)

\* every thread that can run does run, and the receiver answers
Fairness ==
    /\ WF_vars(ContinueOp(Main))
    /\ \A r \in Readers : WF_vars(ReaderStep(r))
    /\ WF_vars(DeviceAnswers)

SpecFair == Init /\ [][Next]_vars /\ Fairness

(***************************************************************************)
(* main (lines 1279-1297): begin, sendUnlogall, setCom(baud=115200),       *)
(* askLog(trigger=2, period=0.1), shutdown.  ncalls is the number of the   *)
(* calls main has made.                                                    *)
(***************************************************************************)
\* the call main made last has returned v
MainGot(op, n, vs) ==
    /\ Idle(Main)
    /\ ncalls = n
    /\ call[Main].op = op
    /\ call[Main].ret \in vs

\* line 1281: if(gps.begin(dataFIFO, comPort=opts.port) != 1): return
MainBegin ==
    /\ ncalls = 0
    /\ call[Main].op = ""
    /\ \E exists, opens \in BOOLEAN : Begin(Main, exists, opens)

\* line 1286: if(gps.sendUnlogall() != 1):
MainUnlogall ==
    /\ MainGot("begin", 1, { "True" })
    /\ SendUnlogall(Main)

\* lines 1287-1289: print(...); gps.myPort.close(); return
MainClose ==
    /\ MainGot("sendUnlogall", 2, { "False", "None" })
    /\ serials' = [ serials EXCEPT ![myPort].open = FALSE ]
    /\ call' = [ call EXCEPT ![Main] = Op(@, "close") ]
    /\ UNCHANGED << gpsVars, exitFlag, orders, ncalls >>
    /\ UNCHANGED << readerVars, wireVars >>

\* line 1291: gps.setCom(baud=115200)
MainSetCom ==
    /\ MainGot("sendUnlogall", 2, { "True" })
    /\ SetCom(Main, 115200)

\* line 1293: gps.askLog(trigger=2, period=0.1)
MainAskLog ==
    /\ MainGot("setCom", 3, { "True", "False" })
    /\ AskLog(Main, 2, 1)

\* lines 1295-1297: sleep(10); gps.shutdown()
MainShutdown ==
    /\ MainGot("askLog", 4, { "True", "False", "None" })
    /\ Shutdown(Main)

NextMain ==
    \/ MainBegin
    \/ MainUnlogall
    \/ MainClose
    \/ MainSetCom
    \/ MainAskLog
    \/ MainShutdown
    \/ ContinueOp(Main)
    \/ \E r \in Readers : ReaderStep(r)
    \/ DeviceStep

SpecMain == Init /\ [][NextMain]_vars

(***************************************************************************)
(* The reader alone over a stream of bytes waiting at the port: begin has  *)
(* returned True, the reader thread has just been started, and the stream  *)
(* is made of up to MaxChunks pieces, each a frame or a stray byte.        *)
(***************************************************************************)
MaxChunks == 3

\* a DYNAMICS log (message type 0): the dynamicID and the CRC
InfoFrame == WithCrc(DeviceHeader(MessageID["DYNAMICS"], 0, 4) \o PackL(2))

\* a frame with an identifier parseResponces has no branch for (42) and a
\* body of 4 bytes
UnknownFrame == WithCrc(DeviceHeader(42, 0, 4) \o PackL(7))

\* the response to unlog-all with code 1 and text "OK"
UnlogallAck == AckFrames[MessageID["UNLOGALL"]][1]

\* the bytes of UnlogallAck with 29 in place of the header length 28
BadLengthFrame == [ UnlogallAck EXCEPT ![4] = 29 ]

\* a BESTXYZ frame whose header declares 8 body bytes, fewer than the 112
\* of its layout
ShortBestxyzFrame ==
    WithCrc(DeviceHeader(MessageID["BESTXYZ"], 0, 8) \o PackL(0) \o PackL(16))

\* an UNLOGALL response whose header declares 2 body bytes, fewer than the
\* 4 of the response code
ShortAckFrame ==
    WithCrc(DeviceHeader(MessageID["UNLOGALL"], 130, 2) \o << 1, 0 >>)

\* the stray bytes: one that is not the first sync byte, and 0xAA
StrayBytes == { 0, 170 }

\* the pieces a stream is made of
Chunks ==
    << BestxyzFrame, UnlogallAck, InfoFrame, UnknownFrame, BadLengthFrame,
       ShortBestxyzFrame, ShortAckFrame, << 0 >>, << 170 >> >>

RECURSIVE Flatten(_)
Flatten(q) ==
    IF q = << >> THEN << >> ELSE Chunks[Head(q)] \o Flatten(Tail(q))

Streams ==
    { Flatten(q) : q \in UNION { [ 1..k -> 1..Len(Chunks) ] : k \in 0..MaxChunks } }

\* the state when begin has returned True and the bytes of stream wait at
\* the port
InitReading(stream) ==
    /\ isOpen = TRUE
    /\ myPort = 1
    /\ serials = << [ open |-> TRUE, baud |-> 9600, breaks |-> 2 ] >>
    /\ baudRate = 9600
    /\ queueSet = TRUE
    /\ dataQueue = << >>
    /\ threadID = 1
    /\ rpc = [ r \in Readers |-> IF r = 1 THEN "entry" ELSE "unborn" ]
    /\ rport = [ r \in Readers |-> 0 ]
    /\ exitFlag = FALSE
    /\ orders = << >>
    /\ current_header = NoHeader
    /\ Indice = 1
    /\ rlog = "none"
    /\ tx = << >>
    /\ rx = stream
    /\ rxIds = << >>
    /\ dev = [ logging |-> FALSE, sent |-> 0, refused |-> FALSE ]
    /\ call = [ c \in Callers |->
                  IF c = Main
                  THEN Return(Enter(Op(NewCall, "begin"), "begin", TRUE),
                              "begin", "True")
                  ELSE NewCall ]
    /\ ncalls = 1
    /\ nwrites = 0

InitScan == \E stream \in Streams : InitReading(stream)

NextScan == \E r \in Readers : ReaderStep(r)

SpecScan == InitScan /\ [][NextScan]_vars

\* the reader thread keeps running
SpecScanFair == SpecScan /\ \A r \in Readers : WF_vars(ReaderStep(r))

(***************************************************************************)
(* The reader over frames whose four CRC bytes take several values.        *)
(***************************************************************************)
\* number of frames in a stream
MaxCrcFrames == 2

\* the right CRC bytes of payload and three values that are not its CRC
CrcTrailers(payload) ==
    { PackCrc(CRC32Value(payload)), << 0, 0, 0, 0 >>,
      << 255, 255, 255, 255 >>, << 1, 2, 3, 4 >> }

\* header and body of the UNLOGALL response and of the BESTXYZ log
AckPayload == SubSeq(UnlogallAck, 1, Len(UnlogallAck) - 4)
BestxyzPayload == SubSeq(BestxyzFrame, 1, Len(BestxyzFrame) - 4)

CrcFrames ==
    { AckPayload \o t : t \in CrcTrailers(AckPayload) }
    \cup { BestxyzPayload \o t : t \in CrcTrailers(BestxyzPayload) }

RECURSIVE Concat(_)
Concat(q) == IF q = << >> THEN << >> ELSE Head(q) \o Concat(Tail(q))

CrcStreams ==
    { Concat(q) : q \in UNION { [ 1..k -> CrcFrames ] : k \in 1..MaxCrcFrames } }

InitCrc == \E stream \in CrcStreams : InitReading(stream)

SpecCrc == InitCrc /\ [][NextScan]_vars

(***************************************************************************)
(* The reader over frames with the DYNAMICS identifier and several message *)
(* types.                                                                  *)
(***************************************************************************)
\* number of frames in a stream
MaxDynFrames == 2

\* message types: 130 is a response in binary format; the others are not
DynTypes == { 0, 2, 128, 130, 131, 255 }

\* the two bodies: a dynamicID alone, and a response code with the text "OK"
DynBodies == { PackL(2), PackL(1) \o AckText(1) }

DynFrames ==
    { WithCrc(DeviceHeader(MessageID["DYNAMICS"], t, Len(b)) \o b) :
          t \in DynTypes, b \in DynBodies }

DynStreams ==
    { Concat(q) : q \in UNION { [ 1..k -> DynFrames ] : k \in 1..MaxDynFrames } }

InitDynamics == \E stream \in DynStreams : InitReading(stream)

SpecDynamics == InitDynamics /\ [][NextScan]_vars

(***************************************************************************)
(* The reader over streams with broken sync markers.                       *)
(***************************************************************************)
\* number of pieces in a stream
MaxSyncPieces == 3

\* a first sync byte alone, the first two sync bytes, a byte that is no
\* sync byte, and a whole UNLOGALL response
SyncPieces == { << 170 >>, << 170, 68 >>, << 0 >>, UnlogallAck }

SyncStreams ==
    { Concat(q) : q \in UNION { [ 1..k -> SyncPieces ] : k \in 1..MaxSyncPieces } }

InitSync == \E stream \in SyncStreams : InitReading(stream)

SpecSync == InitSync /\ [][NextScan]_vars

(***************************************************************************)
(* The reader over well-formed frames of every handled identifier.         *)
(***************************************************************************)
\* number of frames in a stream
MaxHandledFrames == 2

\* the response with code 1 to each of the seven commands, and the BESTXYZ
\* log
HandledFrames ==
    { AckFrames[id][1] : id \in DOMAIN AckFrames } \cup { BestxyzFrame }

HandledStreams ==
    { Concat(q) :
        q \in UNION { [ 1..k -> HandledFrames ] : k \in 1..MaxHandledFrames } }

InitHandled == \E stream \in HandledStreams : InitReading(stream)

SpecHandled == InitHandled /\ [][NextScan]_vars

(***************************************************************************)
(* The reader over well-formed frames with an identifier it has no branch  *)
(* for, one of them with a body that holds the bytes of a response.        *)
(***************************************************************************)
\* number of frames in a stream
MaxCarrierFrames == 3

\* a frame with the unhandled identifier 42 whose body is, byte for byte,
\* an UNLOGALL response
CarrierFrame ==
    WithCrc(DeviceHeader(42, 0, Len(UnlogallAck)) \o UnlogallAck)

CarrierStreams ==
    { Concat(q) :
        q \in UNION { [ 1..k -> { CarrierFrame, UnknownFrame } ] :
                        k \in 1..MaxCarrierFrames } }

InitCarrier == \E stream \in CarrierStreams : InitReading(stream)

SpecCarrier == InitCarrier /\ [][NextScan]_vars

(***************************************************************************)
(* The capture time of a record.  The reader takes datetime.now() when it  *)
(* has decoded a BESTXYZ frame and formats it into the record's Time: the  *)
(* date and the seconds by strftime, then a dot and the microseconds       *)
(* rounded to hundredths of a second.                                      *)
(***************************************************************************)
\* values of currentTime.microsecond: around every hundredth of a second,
\* the value itself, the last one rounded down, the first one rounded up
\* and the last one before the next hundredth
MicroSeconds == { 10000 * k + d : k \in 0..99, d \in { 0, 4999, 5000, 9999 } }

\* round(currentTime.microsecond / 10000.0): to the nearest whole number,
\* a half away from zero
RoundHundredths(microsecond) ==
    (microsecond \div 10000)
    + (IF microsecond % 10000 >= 5000 THEN 1 ELSE 0)

\* the characters of the decimal digits
DigitChars == << "0", "1", "2", "3", "4", "5", "6", "7", "8", "9" >>

\* the decimal digits of n, the most significant first
RECURSIVE DigitsOf(_)
DigitsOf(n) ==
    IF n < 10 THEN << DigitChars[n + 1] >>
    ELSE Append(DigitsOf(n \div 10), DigitChars[(n % 10) + 1])

\* '{0:02.0f}'.format(x) for a whole x: no digits after the point, padded
\* with zeros on the left to a width of at least 2
Format02f(x) ==
    IF Len(DigitsOf(x)) < 2 THEN << "0" >> \o DigitsOf(x) ELSE DigitsOf(x)

\* line 296: myTime, with the strftime part as one element
myTime(microsecond) ==
    << "%Y-%m-%d %H:%M:%S", "." >> \o Format02f(RoundHundredths(microsecond))

\* lines 273-301 with the clock read: the pass over a BESTXYZ frame puts
\* the record with Indice and Time on self.dataQueue
ReaderPassTimed(r) ==
    /\ rpc[r] = "read"
    /\ serials[rport[r]].open
    /\ queueSet
    /\ LET res == ParsePass(rx) IN
       /\ res.kind = "bestxyz"
       /\ rx' = SubSeq(rx, res.used + 1, Len(rx))
       /\ current_header' = res.header
       /\ \E microsecond \in MicroSeconds :
              dataQueue' = Append(dataQueue,
                                  [ Indice |-> Indice,
                                    Time   |-> myTime(microsecond),
                                    data   |-> res.data ])
    /\ Indice' = Indice + 1
    /\ rlog' = "none"
    /\ rpc' = [ rpc EXCEPT ![r] = "check" ]
    /\ UNCHANGED << gpsVars, serials, exitFlag, orders, call, ncalls >>
    /\ UNCHANGED << rport, tx, rxIds, dev, nwrites >>

\* begin has returned True and one BESTXYZ frame waits at the port
InitTime == InitReading(BestxyzFrame)

NextTime ==
    \E r \in Readers :
        ReaderEntry(r) \/ ReaderCheck(r) \/ ReaderPassTimed(r)

SpecTime == InitTime /\ [][NextTime]_vars

(***************************************************************************)
(* The transport failing under the reader: MYPORT.read(1) raises, nothing  *)
(* in parseResponces catches it and the thread ends.                       *)
(***************************************************************************)
\* line 170: the read of reader r raises serial.SerialException
ReaderIOError(r) ==
    /\ rpc[r] = "read"
    /\ serials[rport[r]].open
    /\ rpc' = [ rpc EXCEPT ![r] = "failed" ]
    /\ UNCHANGED << gpsVars, serials, exitFlag, orders, call, ncalls >>
    /\ UNCHANGED << rport, current_header, Indice, rlog, dataQueue >>
    /\ UNCHANGED wireVars

NextIO ==
    \/ Next
    \/ \E r \in Readers : ReaderIOError(r)

SpecIO == Init /\ [][NextIO]_vars

(***************************************************************************)
(* The header codec on its own: create_header and struct.pack on one side, *)
(* the reader's header decoding on the other, over a set of field values.  *)
(***************************************************************************)
\* message identifiers: those of Gps.MessageID and the ends of the UShort
HeaderIDs == { MessageID[n] : n \in DOMAIN MessageID } \cup { 0, 65535 }

\* body lengths: those of the commands and of BESTXYZ, and the UShort ends
HeaderLengths == { 0, 4, 8, 16, 32, 112, 65535 }

\* port addresses: the default 192 (thisport) and other UChar values
HeaderPorts == { 0, 32, 192, 255 }

\* after __init__, with the arguments of create_header chosen
InitCodec ==
    /\ isOpen = FALSE
    /\ myPort = 0
    /\ serials = << >>
    /\ baudRate = 9600
    /\ queueSet = FALSE
    /\ dataQueue = << >>
    /\ threadID = 0
    /\ rpc = [ r \in Readers |-> "unborn" ]
    /\ rport = [ r \in Readers |-> 0 ]
    /\ exitFlag = FALSE
    /\ orders = << >>
    /\ current_header = NoHeader
    /\ Indice = 1
    /\ rlog = "none"
    /\ tx = << >>
    /\ rx = << >>
    /\ rxIds = << >>
    /\ dev = [ logging |-> FALSE, sent |-> 0, refused |-> FALSE ]
    /\ ncalls = 0
    /\ nwrites = 0
    /\ \E h \in HeaderIDs \X HeaderLengths \X HeaderPorts :
           call = [ c \in Callers |->
                      IF c = Main THEN [ NewCall EXCEPT !.arg = h ]
                      ELSE NewCall ]

\* header = self.create_header(...); struct.pack('<BBBBHBBHHBBHlLHH',
\* *header): the 28 bytes come to stand at the reader's port
EncodeHeader ==
    /\ rx = << >>
    /\ current_header = NoHeader
    /\ LET a == call[Main].arg
       IN  rx' = PackHeader(create_header(a[1], a[2], a[3]))
    /\ UNCHANGED << gpsVars, serials, exitFlag, orders, call, ncalls >>
    /\ UNCHANGED << rpc, rport, current_header, Indice, rlog, dataQueue >>
    /\ UNCHANGED << tx, rxIds, dev, nwrites >>

\* lines 170-183: the three sync bytes are matched, the 25 bytes after them
\* unpacked and the result made self.current_header
ReadHeader ==
    /\ Len(rx) >= 28
    /\ << rx[1], rx[2], rx[3] >> = << 170, 68, 18 >>
    /\ current_header' = DecodeHeader(rx)
    /\ rx' = Slice(rx, 28, Len(rx))
    /\ UNCHANGED << gpsVars, serials, exitFlag, orders, call, ncalls >>
    /\ UNCHANGED << rpc, rport, Indice, rlog, dataQueue >>
    /\ UNCHANGED << tx, rxIds, dev, nwrites >>

NextCodec == EncodeHeader \/ ReadHeader

SpecCodec == InitCodec /\ [][NextCodec]_vars

(***************************************************************************)
(* Properties of the command and response exchange.                        *)
(***************************************************************************)
\* the seven command functions of Gps
CommandFns ==
    { "sendUnlogall", "askLog", "setDynamics", "setCom", "reset",
      "saveconfig", "sbascontrol" }

\* thread c runs or ran last a command function that wrote its frame and has
\* not dequeued the response to that frame
Outstanding(c) ==
    /\ call[c].fn \in CommandFns
    /\ call[c].wrote > 0
    /\ call[c].got # call[c].my

\* thread c has returned from a command function
Returned(c) ==
    /\ call[c].fn \in CommandFns
    /\ call[c].pc = "idle"
    /\ call[c].ret \in { "True", "False", "None" }

\* C1: with two or more threads calling commands on one Gps object, no
\* thread writes a command frame to the port while another thread has
\* written a frame and has not yet dequeued the response to it.
C1_OneOutstanding ==
    [][ nwrites' # nwrites =>
          \A c \in Callers : call'[c] = call[c] => ~Outstanding(c) ]_vars

\* C2: every command function entered with the port open and valid
\* arguments has, when it returns, written exactly one frame and after it
\* dequeued exactly one order; setCom is one of them.
C2_WriteThenDequeue ==
    \A c \in Callers :
        Returned(c) /\ call[c].pre =>
            call[c].wrote = 1 /\ call[c].gets = 1

\* C3: with commands called one after the other by one thread, the order
\* queue is empty whenever no call is in progress, and a call that dequeued
\* an order dequeued the response to its own frame.
C3_OrdersConsumedByIssuer ==
    /\ Idle(Main) => orders = << >>
    /\ call[Main].gets > 0 => call[Main].got = call[Main].my

\* the call of function fn that main made has ended
MainEnded(fn) ==
    /\ call[Main].op = fn
    /\ call[Main].fn = fn
    /\ call[Main].pc = "idle"
    /\ call[Main].ret # ""

\* a step of the caller, of a reader or of the receiver answering a frame
Progress ==
    \/ ContinueOp(Main)
    \/ \E r \in Readers : ReaderStep(r)
    \/ DeviceAnswers

\* C4: in main's sequence, with a receiver that answers every command with
\* the success code, sendUnlogall and askLog each return True on the
\* response to their own frame, and shutdown is never stuck before it ends.
C4_ExampleSequence ==
    ~dev.refused =>
        /\ \A fn \in { "sendUnlogall", "askLog" } :
               MainEnded(fn) =>
                   call[Main].ret = "True" /\ call[Main].got = call[Main].my
        /\ call[Main].sd # 0 => ENABLED Progress

\* the reader thread started by begin is in its loop
ReaderRunning ==
    /\ threadID # 0
    /\ rpc[threadID] \in { "check", "read" }

\* thread c has entered shutdown and run none of its statements
ShutdownEntered(c) ==
    /\ call[c].sd = 1
    /\ call[c].fn = "shutdown"

\* C5: a shutdown called while the reader thread is in its loop returns,
\* whatever the interleaving of the two threads, when every thread keeps
\* running and the receiver answers each unlog-all.
C5_ShutdownReturns ==
    (ShutdownEntered(Main) /\ isOpen /\ ReaderRunning) ~> (call[Main].sd = 0)

\* the step takes thread c out of orders.get()
Dequeues(c) == call[c].pc = "wait" /\ call'[c].pc # "wait"

\* C6: a command call that dequeues an order with its own tag returns True
\* if the order's response code is 1 and False if it is not.
C6_ResultIffSuccess ==
    [][ \A c \in Callers :
          Dequeues(c) /\ Head(orders).order = call[c].cmd =>
              /\ call'[c].pc = "idle"
              /\ call'[c].ret = IF Head(orders).data.responseID = << 0, 1 >>
                                THEN "True" ELSE "False" ]_vars

\* sendUnlogall dequeued the response to its own frame and returned True
C6_Witness ==
    /\ call[Main].fn = "sendUnlogall"
    /\ call[Main].gets = 1
    /\ call[Main].got = call[Main].my
    /\ call[Main].ret = "True"

\* C7: a command call that dequeues an order with another tag returns a
\* result that is not True, writes nothing more, and leaves the queue one
\* order shorter, with the order it took gone.
C7_MismatchFails ==
    [][ \A c \in Callers :
          Dequeues(c) /\ Head(orders).order # call[c].cmd =>
              /\ call'[c].pc = "idle"
              /\ call'[c].ret \in { "False", "None" }
              /\ call'[c].wrote = call[c].wrote
              /\ nwrites' = nwrites
              /\ tx' = tx
              /\ Len(orders') = Len(orders) - 1
              /\ orders' = Tail(orders) ]_vars

\* a command dequeued the response to another frame and returned
C7_Witness ==
    /\ Returned(Main)
    /\ call[Main].gets = 1
    /\ call[Main].got # call[Main].my
    /\ call[Main].ret = "None"

\* C8: a command function that returns, returns True or False.
C8_ReturnsBoolean ==
    \A c \in Callers : Returned(c) => call[c].ret \in { "True", "False" }

\* the reader thread that begin started last has ended
ReaderJoined == threadID # 0 /\ rpc[threadID] \in Terminated

\* the last sendUnlogall of thread c has returned
UnlogallReturned(c) ==
    /\ call[c].fn = "sendUnlogall"
    /\ call[c].pc = "idle"
    /\ call[c].ret # ""

\* C9: the statements of shutdown take effect in the order first unlog-all,
\* stop flag, second unlog-all, join, breaks, close, isOpen cleared; the
\* port is closed and isOpen cleared only after the reader thread ended.
C9_ShutdownOrder ==
    [][ call[Main].sd # 0 =>
          /\ call'[Main].sd \in { call[Main].sd, call[Main].sd + 1, 0 }
          /\ nwrites' # nwrites => call[Main].sd \in { 1, 3 }
          /\ exitFlag' # exitFlag =>
                 call[Main].sd = 2 /\ UnlogallReturned(Main)
          /\ call[Main].sd = 3 => exitFlag
          /\ call[Main].sd = 4 /\ call'[Main].sd = 5 =>
                 UnlogallReturned(Main) /\ ReaderJoined
          /\ serials' # serials =>
                 /\ ReaderJoined
                 /\ call[Main].sd \in { 5, 6 }
                 /\ call[Main].sd = 5 =>
                        serials'[myPort].open /\ serials[myPort].open
                 /\ call[Main].sd = 6 =>
                        /\ ~serials'[myPort].open
                        /\ serials'[myPort].breaks = serials[myPort].breaks
          /\ isOpen' # isOpen =>
                 /\ ReaderJoined
                 /\ call[Main].sd = 7
                 /\ ~serials[myPort].open
                 /\ ~isOpen' ]_vars

\* a shutdown called with the port open has returned True
C9_Witness ==
    /\ call[Main].fn = "shutdown"
    /\ call[Main].ret = "True"
    /\ call[Main].pre
    /\ call[Main].gets = 1
    /\ exitFlag
    /\ ReaderJoined
    /\ ~serials[myPort].open
    /\ ~isOpen

\* C10: a shutdown that has ended has returned True, and left isOpen false
\* and the port closed, whatever the session was when it was called.
C10_ShutdownReturnsTrue ==
    \A c \in Callers :
        call[c].fn = "shutdown" /\ call[c].ret # "" =>
            /\ call[c].ret = "True"
            /\ ~isOpen
            /\ myPort # 0 => ~serials[myPort].open

(***************************************************************************)
(* Properties of begin, of the reader's scan and of the command encoder.   *)
(***************************************************************************)
\* no begin has started a reader thread and thread c is not inside a call
NeverStarted(c) == threadID = 0 /\ call[c].pc = "idle"

C12_SequenceNumbers ==
    /\ \A k \in 1..Len(dataQueue) : dataQueue[k].Indice = k
    /\ Indice = Len(dataQueue) + 1

\* two records were put with a response decoded between them
C12_Witness ==
    /\ Len(dataQueue) = 2
    /\ Len(orders) = 1
    /\ current_header # NoHeader
    /\ current_header.messageID = MessageID["BESTXYZ"]

\* the stream still to read: one stray byte b, then the frame
StrayThen(b, frame) == rx = << b >> \o frame

\* the n+1-th order is the response decoded from UnlogallAck
AckDelivered(n) ==
    /\ Len(orders) > n
    /\ orders[n + 1].order = "UNLOGALL"
    /\ orders[n + 1].data.responseID = << 0, 1 >>
    /\ orders[n + 1].data.ascii = AckText(1)

\* the n+1-th record is the one decoded from BestxyzFrame
RecordDelivered(n) ==
    /\ Len(dataQueue) > n
    /\ dataQueue[n + 1].data =
           DecodeBestxyz(DecodeHeader(BestxyzFrame), BestxyzFrame)

\* C13: when one stray byte of any value, 0xAA included, stands before a
\* well-formed frame of a handled type, the reader goes on to decode the
\* frame and delivers its order or its record.
C13_StrayLeadingByte ==
    \A b \in StrayBytes : \A n \in 0..MaxChunks :
        /\ (StrayThen(b, UnlogallAck) /\ Len(orders) = n) ~> AckDelivered(n)
        /\ (StrayThen(b, BestxyzFrame) /\ Len(dataQueue) = n)
               ~> RecordDelivered(n)

\* the bytes waiting start with the sync marker and a header length other
\* than 28
BadHeaderLength ==
    /\ Len(rx) >= 4
    /\ << rx[1], rx[2], rx[3] >> = << 170, 68, 18 >>
    /\ rx[4] # 28

\* reader r makes a pass of its loop in this step
PassOf(r) == rpc[r] = "read" /\ rpc'[r] # "read"

\* C14: a pass over bytes whose sync marker matches but whose header-length
\* byte is not 28 rejects them: it reads no body, takes no header as the
\* current one and delivers neither an order nor a record.
C14_HeaderLengthValidated ==
    [][ \A r \in Readers :
          PassOf(r) /\ BadHeaderLength =>
              /\ orders' = orders
              /\ dataQueue' = dataQueue
              /\ current_header' = current_header
              /\ Len(rx) - Len(rx') <= 4 ]_vars

\* the fields of a decoded header d are those of the header list h
SameFields(d, h) ==
    /\ d.sync = << h[1], h[2], h[3] >>
    /\ d.headerLength = h[4]
    /\ d.messageID = h[5]
    /\ d.messageType = h[6]
    /\ d.portAddress = h[7]
    /\ d.messageLength = h[8]
    /\ d.sequence = h[9]
    /\ d.idleTime = h[10]
    /\ d.timeStatus = h[11]
    /\ d.week = h[12]
    /\ d.ms = h[13]
    /\ d.receiverStatus = PackL(h[14])
    /\ d.reserved = h[15]
    /\ d.swVersion = h[16]

\* C15: the header the reader decodes from the 28 bytes packed from
\* create_header(messageID, messageLength, portAddress) has the fields of
\* that header: the three arguments, sync AA 44 12, header length 28.
C15_HeaderRoundTrip ==
    current_header # NoHeader =>
        LET a == call[Main].arg IN
        /\ SameFields(current_header, create_header(a[1], a[2], a[3]))
        /\ current_header.sync = << 170, 68, 18 >>
        /\ current_header.headerLength = 28
        /\ current_header.messageID = a[1]
        /\ current_header.messageLength = a[2]
        /\ current_header.portAddress = a[3]
        /\ rx = << >>

\* the header of set-SBAS with 16 body bytes was encoded and decoded
C15_Witness ==
    /\ current_header # NoHeader
    /\ call[Main].arg = << MessageID["SBASCONTROL"], 16, 192 >>
    /\ current_header.messageID = 652

(***************************************************************************)
(* Properties of the command frames.                                       *)
(***************************************************************************)
\* the message identifier and the body length in the header of frame f
FrameID(f) == UnpackH(Slice(f, 4, 6))
FrameBodyLength(f) == UnpackH(Slice(f, 8, 10))

\* the frames on the line that the command thread c runs or ran last wrote
WrittenBy(c) == { i \in 1..Len(tx) : tx[i].id = call[c].my }

\* thread c entered a command with the port open and valid arguments, and
\* the command has ended otherwise than by a failure of the transport
Encoded(c) ==
    /\ call[c].fn \in CommandFns
    /\ call[c].pre
    /\ call[c].pc = "idle"
    /\ call[c].ret # "SerialException"

\* the message identifier of each command
OwnID ==
    [ sendUnlogall |-> 38, setCom |-> 4, askLog |-> 1, setDynamics |-> 258,
      reset |-> 18, saveconfig |-> 19, sbascontrol |-> 652 ]

\* C16: every command encodes its frame with its own message identifier:
\* a command entered with the port open writes a frame, and the frame
\* carries the identifier of that command and of no other.
C16_OwnMessageID ==
    \A c \in Callers :
        /\ call[c].fn \in CommandFns =>
               \A i \in WrittenBy(c) :
                   FrameID(tx[i].bytes) = OwnID[call[c].fn]
        /\ Encoded(c) => call[c].wrote = 1

\* the number of body bytes of each command
OwnBodyLength ==
    [ sendUnlogall |-> 8, setCom |-> 32, askLog |-> 32, setDynamics |-> 4,
      reset |-> 4, saveconfig |-> 0, sbascontrol |-> 16 ]

C18_EncodingSucceeds ==
    \A c \in Callers :
        call[c].fn \in CommandFns /\ call[c].pre /\ call[c].wrote = 0 =>
            call[c].ret \in { "", "SerialException" }

\* the header and body bytes of frame f, and its last four bytes
FramePayload(f) == SubSeq(f, 1, Len(f) - 4)
FrameTrailer(f) == SubSeq(f, Len(f) - 3, Len(f))

\* C19: the last four bytes of every command frame written to the port are
\* CRC32Value of all the header and body bytes before them, packed
\* little-endian.
C19_CrcTrailer ==
    \A i \in 1..Len(tx) :
        /\ Len(tx[i].bytes) >= 32
        /\ FrameTrailer(tx[i].bytes) =
               PackCrc(CRC32Value(FramePayload(tx[i].bytes)))

\* frames of two commands with bodies of different sizes are on the line
C19_Witness ==
    /\ \E i \in 1..Len(tx) : FrameID(tx[i].bytes) = MessageID["COM"]
    /\ \E i \in 1..Len(tx) : FrameID(tx[i].bytes) = MessageID["UNLOGALL"]

\* the bytes waiting start with the sync marker and a whole 28-byte header
\* stands there, followed by the body and CRC bytes its length field declares
SyncedFrame ==
    /\ Len(rx) >= 28
    /\ << rx[1], rx[2], rx[3] >> = << 170, 68, 18 >>
    /\ Len(rx) >= 28 + FrameBodyLength(rx) + 4

\* C20: a pass that finds the sync marker consumes the 28 header bytes,
\* the body bytes the header declares and the 4 CRC bytes, whatever the
\* message identifier and type, so the next pass starts at the next frame.
C20_ConsumesWholeFrame ==
    [][ \A r \in Readers :
          PassOf(r) /\ SyncedFrame =>
              Len(rx) - Len(rx') = 28 + FrameBodyLength(rx) + 4 ]_vars

(***************************************************************************)
(* Properties of the reader's branches.                                    *)
(***************************************************************************)
\* the message identifiers parseResponces has a branch for
HandledIDs == { 1, 4, 18, 19, 38, 241, 258, 652 }

\* a whole header stands at the port behind the sync marker
SyncedHeader ==
    /\ Len(rx) >= 28
    /\ << rx[1], rx[2], rx[3] >> = << 170, 68, 18 >>

\* C21: a pass over a header with an identifier that is not handled reads
\* the 28 header bytes and no more: the body and CRC bytes stay at the port,
\* no order and no record is delivered, the counter stays.
C21_UnhandledLeavesBody ==
    [][ \A r \in Readers :
          PassOf(r) /\ SyncedHeader /\ FrameID(rx) \notin HandledIDs =>
              /\ rx' = Slice(rx, 28, Len(rx))
              /\ orders' = orders
              /\ dataQueue' = dataQueue
              /\ Indice' = Indice ]_vars

\* the header of UnknownFrame was read and its body and CRC stand next
C21_Witness ==
    /\ current_header # NoHeader
    /\ current_header.messageID \notin HandledIDs
    /\ Len(rx) >= 8
    /\ SubSeq(rx, 1, 8) = Slice(UnknownFrame, 28, 36)
    /\ \E r \in Readers : rpc[r] = "check"

\* a reader thread has ended on a failure and none is running
ReaderFailed ==
    /\ \E r \in Readers : rpc[r] = "failed"
    /\ \A r \in Readers : rpc[r] \in { "unborn", "done", "failed" }

\* thread c enters a command function in this step
Issues(c) ==
    /\ call'[c] # call[c]
    /\ ncalls' = ncalls + 1
    /\ call'[c].fn \in CommandFns

\* C22: once the reader has ended on a failure of the transport the session
\* is not open any more, and a command issued then returns False without
\* writing a frame and without waiting for an order.
C22_FailureSurfaced ==
    [][ \A c \in Callers :
          ReaderFailed /\ Issues(c) =>
              /\ ~isOpen
              /\ tx' = tx
              /\ call'[c].pc = "idle"
              /\ call'[c].ret = "False" ]_vars

\* C23: no bytes that arrive end the reader: junk, a broken sync marker or
\* a handled header that declares a body shorter than its layout are
\* absorbed, and the thread ends only when the stop flag is set.
C23_AnomaliesAbsorbed ==
    \A r \in Readers : rpc[r] \in Terminated => exitFlag

\* thread c has written its frame and waits in self.orders.get()
Waiting(c) == call[c].pc = "wait"

StartsWith(payload) ==
    /\ Len(rx) >= Len(payload) + 4
    /\ SubSeq(rx, 1, Len(payload)) = payload

\* the four bytes that stand behind payload at the port
TrailerAfter(payload) == SubSeq(rx, Len(payload) + 1, Len(payload) + 4)

\* C25: the CRC of an incoming frame is not checked: whatever its four CRC
\* bytes are, a pass over the UNLOGALL response puts the same order (code 1,
\* text "OK") and a pass over the BESTXYZ log puts the same record; the CRC
\* bytes only fill the crc32 field.
C25_CrcNotChecked ==
    [][ \A r \in Readers :
          /\ PassOf(r) /\ StartsWith(AckPayload) =>
                 /\ orders' = Append(orders,
                        [ order |-> "UNLOGALL", ackOf |-> 0,
                          data |-> [ responseID |-> << 0, 1 >>,
                                     ascii |-> AckText(1),
                                     crc32 |-> TrailerAfter(AckPayload) ] ])
                 /\ dataQueue' = dataQueue
          /\ PassOf(r) /\ StartsWith(BestxyzPayload) =>
                 /\ dataQueue' = Append(dataQueue,
                        [ Indice |-> Indice,
                          data |-> [ DecodeBestxyz(DecodeHeader(BestxyzFrame),
                                                   BestxyzFrame)
                                       EXCEPT !.crc32 =
                                           TrailerAfter(BestxyzPayload) ] ])
                 /\ orders' = orders ]_vars

\* an order and a record were delivered from frames whose CRC bytes are
\* not the CRC of their content
C25_Witness ==
    /\ Len(orders) = 1
    /\ orders[1].data.crc32 # FrameTrailer(UnlogallAck)
    /\ orders[1].data.responseID = << 0, 1 >>
    /\ Len(dataQueue) = 1
    /\ dataQueue[1].data.crc32 # FrameTrailer(BestxyzFrame)

\* the message-type byte of the header at the port
FrameType(f) == f[7]

\* C26: a header with the DYNAMICS identifier brings an order tagged
\* DYNAMICS exactly when its message type is 130; with any other type the
\* pass reads two fields of 4 bytes behind the header and puts nothing on
\* the order queue or the data queue.
C26_DynamicsByType ==
    [][ \A r \in Readers :
          PassOf(r) /\ SyncedHeader
                    /\ FrameID(rx) = MessageID["DYNAMICS"] =>
              IF FrameType(rx) = 130
              THEN /\ Len(orders') = Len(orders) + 1
                   /\ orders'[Len(orders')].order = "DYNAMICS"
                   /\ SubSeq(orders', 1, Len(orders)) = orders
                   /\ dataQueue' = dataQueue
              ELSE /\ orders' = orders
                   /\ dataQueue' = dataQueue
                   /\ Indice' = Indice
                   /\ rx' = Slice(rx, 36, Len(rx)) ]_vars

\* a DYNAMICS response was put on the order queue and a DYNAMICS frame of
\* another type was read after it
C26_Witness ==
    /\ Len(orders) = 1
    /\ orders[1].order = "DYNAMICS"
    /\ current_header # NoHeader
    /\ current_header.messageID = MessageID["DYNAMICS"]
    /\ current_header.messageType # 130
    /\ rx = << >>

(***************************************************************************)
(* Properties of commands issued one after the other.                      *)
(***************************************************************************)
\* thread c runs or ran last a command entered after a call that ended on
\* a response with another tag than its own
AfterMismatch(c) ==
    /\ call[c].fn \in CommandFns
    /\ call[c].prev = "None"

\* C27: a mismatch does not spoil the commands after it: the command
\* issued next after a call that failed on a wrong tag dequeues the
\* response to its own frame.
C27_MismatchNotPoisoning ==
    \A c \in Callers :
        AfterMismatch(c) /\ call[c].gets > 0 =>
            call[c].got = call[c].my

(***************************************************************************)
(* Properties of the reader's loop.                                        *)
(***************************************************************************)
\* C28: the reader looks at the stop flag only at the head of its loop,
\* between two passes: it returns only from there, with the flag set (or at
\* its entry, with the port not open), never from inside a pass or from a
\* blocked read, and once the flag is set it makes at most the pass it is
\* in or blocked on before it returns.
C28_FlagBetweenPasses ==
    [][ \A r \in Readers :
          /\ rpc'[r] = "done" /\ rpc[r] # "done" =>
                 \/ rpc[r] = "check" /\ exitFlag
                 \/ rpc[r] = "entry" /\ ~isOpen
          /\ rpc[r] = "read" /\ rpc'[r] # "read" =>
                 rpc'[r] \in { "check", "failed" }
          /\ rpc[r] = "check" /\ exitFlag /\ rpc'[r] # "check" =>
                 rpc'[r] = "done" ]_vars

\* the stop flag is set while the reader is blocked in a read, and a frame
\* whose response it will have to read is on its way
C28_Witness ==
    /\ exitFlag
    /\ \E r \in Readers : rpc[r] = "read" /\ r = threadID
    /\ rx = << >>
    /\ tx # << >>

\* C29: a byte that fails to match as second or third sync byte is read
\* and dropped: the pass ends with that byte consumed and delivers nothing,
\* and the next pass starts at the byte behind it.  So of AA AA 44 12 ...
\* the second AA is consumed and the frame behind it is not decoded.
C29_FailedSyncByteDropped ==
    [][ \A r \in Readers :
          /\ PassOf(r) /\ Len(rx) >= 2 /\ rx[1] = 170 /\ rx[2] # 68 =>
                 /\ rx' = Slice(rx, 2, Len(rx))
                 /\ orders' = orders
                 /\ current_header' = current_header
          /\ PassOf(r) /\ Len(rx) >= 3 /\ rx[1] = 170 /\ rx[2] = 68
                       /\ rx[3] # 18 =>
                 /\ rx' = Slice(rx, 3, Len(rx))
                 /\ orders' = orders
                 /\ current_header' = current_header ]_vars

\* of AA followed by a whole response the two AA were read: the response
\* stands at the port without its first byte and no order was put
C29_Witness ==
    /\ rx = Slice(UnlogallAck, 1, Len(UnlogallAck))
    /\ orders = << >>
    /\ current_header = NoHeader

\* the command name of each identifier that brings an order
CommandName(id) ==
    CASE id = 1   -> "LOG"
      [] id = 4   -> "COM"
      [] id = 18  -> "RESET"
      [] id = 19  -> "SAVECONFIG"
      [] id = 38  -> "UNLOGALL"
      [] id = 258 -> "DYNAMICS"
      [] id = 652 -> "SBASCONTROL"

\* the header at the port is that of a response to a command
OrderHeader ==
    \/ FrameID(rx) \in { 1, 4, 18, 19, 38, 652 }
    \/ FrameID(rx) = 258 /\ FrameType(rx) = 130

\* C30: a pass that decodes a frame delivers once, to one place: a frame
\* with the identifier of a command appends one order with that command's
\* name to the order queue and leaves the data queue and Indice alone; a
\* BESTXYZ frame appends one record to the data queue and leaves the order
\* queue alone.
C30_OneDelivery ==
    [][ \A r \in Readers :
          /\ PassOf(r) /\ SyncedHeader /\ OrderHeader =>
                 /\ Len(orders') = Len(orders) + 1
                 /\ SubSeq(orders', 1, Len(orders)) = orders
                 /\ orders'[Len(orders')].order = CommandName(FrameID(rx))
                 /\ dataQueue' = dataQueue
                 /\ Indice' = Indice
          /\ PassOf(r) /\ SyncedHeader
                       /\ FrameID(rx) = MessageID["BESTXYZ"] =>
                 /\ Len(dataQueue') = Len(dataQueue) + 1
                 /\ SubSeq(dataQueue', 1, Len(dataQueue)) = dataQueue
                 /\ orders' = orders ]_vars

\* a SAVECONFIG response and a BESTXYZ log were read: one order, one record
C30_Witness ==
    /\ Len(orders) = 1
    /\ orders[1].order = "SAVECONFIG"
    /\ Len(dataQueue) = 1
    /\ rx = << >>

(***************************************************************************)
(* Properties of the stream's alignment, of failed preconditions, of       *)
(* reopening and of the reader's start.                                    *)
(***************************************************************************)
\* C31: only frames the receiver sent as frames bring orders and records:
\* when it sent frames with unhandled identifiers only, no response and no
\* BESTXYZ log among them, nothing is put on the order queue or the data
\* queue, whatever the bodies of those frames hold.
C31_BodiesNotRescanned ==
    /\ orders = << >>
    /\ dataQueue = << >>

C33_Reopen ==
    /\ MainEnded("begin")
    /\ call[Main].ret = "True"
    /\ call[Main].prevfn = "shutdown"
    /\ call[Main].prev = "True"
    => rpc[threadID] # "done"

\* reader thread r is started in this step
Started(r) == rpc[r] = "unborn" /\ rpc'[r] # "unborn"

\* C34: begin starts the reader thread last: when the thread is started the
\* two breaks have been sent and isOpen and dataQueue are set, and begin
\* returns True in the step that starts it; so the thread does not return
\* at its entry for a port that is not open, isOpen being cleared after the
\* start only by a later begin whose port did not open or by the end of a
\* shutdown that has joined its thread, and it never puts a record on a
\* dataQueue that is None.
C34_ReaderStartedLast ==
    [][ /\ \A r \in Readers :
             /\ Started(r) =>
                    /\ isOpen /\ queueSet
                    /\ serials[myPort].open /\ serials[myPort].breaks = 2
                    /\ threadID' = r
                    /\ \E c \in Callers :
                           call[c].ret = "" /\ call'[c].fn = "begin"
                                            /\ call'[c].ret = "True"
             /\ rpc[r] = "entry" /\ isOpen =>
                    rpc'[r] \in { "entry", "check" }
             /\ PassOf(r) /\ rpc'[r] = "failed" => queueSet
        /\ \A c \in Callers :
             call'[c].fn = "begin" /\ call'[c].ret = "True"
                 /\ call[c].ret # "True" =>
                 \E r \in Readers : Started(r)
        /\ isOpen /\ ~isOpen' =>
               \E c \in Callers :
                   \/ /\ call'[c].fn = "begin" /\ call'[c].ret = "False"
                      /\ ~serials'[myPort'].open
                   \/ /\ call'[c].fn = "shutdown" /\ call'[c].ret = "True"
                      /\ rpc[threadID] \in Terminated ]_vars

\* begin has returned True and the thread it started has passed its entry
C34_Witness ==
    /\ MainEnded("begin")
    /\ call[Main].ret = "True"
    /\ rpc[threadID] = "check"
    /\ serials[myPort].breaks = 2
    /\ isOpen /\ queueSet

\* the reader threads that have been started and have not returned
Running == { r \in Readers : rpc[r] \in { "entry", "check", "read" } }

\* C35: a Gps object has at most one reader thread running at any time,
\* whatever begin, command and shutdown calls were made on it, a begin on a
\* session that is already reading included.
C35_OneReader == Cardinality(Running) <= 1

\* C36: a pass that discards bytes because one of them is not the sync byte
\* expected at its position (the first, the second or the third of the
\* sync) logs the unexpected byte.
C36_DesyncLogged ==
    [][ \A r \in Readers :
          PassOf(r) /\ serials[rport[r]].open
              /\ ParsePass(rx).kind \in { "unexpected", "nosync" } =>
              rlog' = "New Byte unexpected" ]_vars

\* C37: a pass that reads a header whose message identifier no branch of
\* the reader handles logs something before the reader scans on.
C37_UnhandledLogged ==
    [][ \A r \in Readers :
          PassOf(r) /\ serials[rport[r]].open
              /\ ParsePass(rx).kind = "unhandled" =>
              rlog' # "none" ]_vars

\* C38: the Time of every record ends in a dot and exactly two digits, the
\* hundredths of the second from 00 to 99, for every microsecond of the
\* clock.
C38_TwoDigitHundredths ==
    \A i \in DOMAIN dataQueue :
        LET time == dataQueue[i].Time IN
        /\ Len(time) = 4
        /\ time[2] = "."
        /\ \A j \in 3..4 : \E d \in DOMAIN DigitChars : time[j] = DigitChars[d]

====
